---- MODULE Spec2Model ----
(***************************************************************************)
(* Provider configuration of terraform-provider-pulsar                     *)
(* (src/pulsar/provider.go): schema defaults, endpoint validation and the  *)
(* construction of one pulsar client per API version.                      *)
(*                                                                         *)
(* A Go string is a sequence of characters; <<>> is the empty string.      *)
(***************************************************************************)
EXTENDS Integers, Sequences, FiniteSets, TLC

(* ----------------------------- bounds --------------------------------- *)

\* Longest endpoint string enumerated character by character.
MaxLen == 3

\* Number of consecutive provider configurations (sessions) in SpecSessions.
MaxSessions == 2

(* ----------------------------- state ---------------------------------- *)

VARIABLES
    d,                          \* *schema.ResourceData of the running call: the
                                \* host configuration and the environment its
                                \* DefaultFuncs read
    TerraformVersion,           \* provider.TerraformVersion, set by the host
    pc,                         \* position of the call in ConfigureContextFunc
    tfVersion,                  \* locals of ConfigureContextFunc and
    clusterURL,                 \* providerConfigure
    token,
    TLSTrustCertsFilePath,
    TLSAllowInsecureConnection,
    meta,
    version,                    \* index of the loop over the versions
    calls,                      \* the calls of pulsar.New made by this call
    output,                     \* what the call returned to the host
    diags,
    sessions,                   \* the calls that have returned, oldest first
    nextClient,                 \* identity of the next client pulsar.New makes
    got                         \* last client each resource handler looked up

vars == <<d, TerraformVersion, pc, tfVersion, clusterURL, token,
          TLSTrustCertsFilePath, TLSAllowInsecureConnection, meta, version,
          calls, output, diags, sessions, nextClient, got>>

(* ----------------------------- strings -------------------------------- *)

\* One control byte (below 0x20 or 0x7f); every other character is printable.
CTL == "\\x7f"

\* The characters endpoint strings are built from.
Chars == {"a", "A", ":", "/", " ", "%", CTL}

Strings(n) == UNION {[1..k -> Chars] : k \in 0..n}

\* Character classes of the alphabet (it holds no decimal digit).
Letters == {"a", "A"}
HexDigits == {"a", "A"}
Digits == {}

Drop(s, n) == SubSeq(s, n + 1, Len(s))
Take(s, n) == SubSeq(s, 1, n)

HasPrefix(s, p) == Len(s) >= Len(p) /\ Take(s, Len(p)) = p

\* Position of the first (last) occurrence of character c in s, 0 if none.
Index(s, c) ==
    IF \E i \in 1..Len(s) : s[i] = c
    THEN CHOOSE i \in 1..Len(s) : s[i] = c /\ \A j \in 1..(i - 1) : s[j] # c
    ELSE 0

LastIndex(s, c) ==
    IF \E i \in 1..Len(s) : s[i] = c
    THEN CHOOSE i \in 1..Len(s) : s[i] = c /\ \A j \in (i + 1)..Len(s) : s[j] # c
    ELSE 0

Contains(s, c) == Index(s, c) # 0

ToLowerChar(c) == IF c = "A" THEN "a" ELSE c
ToLower(s) == [i \in 1..Len(s) |-> ToLowerChar(s[i])]

(* ----------------------------- net/url -------------------------------- *)

NoErr == <<>>

\* url.getScheme: the scheme is the run of letters before the first ":".
\* A ":" in first position is an error; any other character ends the scan
\* with no scheme.
RECURSIVE getSchemeFrom(_, _)
getSchemeFrom(rawURL, i) ==
    IF i > Len(rawURL)
    THEN [scheme |-> <<>>, path |-> rawURL, err |-> NoErr]
    ELSE IF rawURL[i] \in Letters
    THEN getSchemeFrom(rawURL, i + 1)
    ELSE IF rawURL[i] = ":"
    THEN IF i = 1
         THEN [scheme |-> <<>>, path |-> <<>>, err |-> <<"missing protocol scheme">>]
         ELSE [scheme |-> Take(rawURL, i - 1), path |-> Drop(rawURL, i), err |-> NoErr]
    ELSE [scheme |-> <<>>, path |-> rawURL, err |-> NoErr]

getScheme(rawURL) == getSchemeFrom(rawURL, 1)

\* url.unescape: "%" must be followed by two hex digits; in a host name a
\* character that shouldEscape reports (here the space) is rejected.
RECURSIVE unescapeFrom(_, _, _)
unescapeFrom(s, i, host) ==
    IF i > Len(s)
    THEN [out |-> <<>>, err |-> NoErr]
    ELSE IF s[i] = "%"
    THEN IF i + 2 > Len(s) \/ s[i + 1] \notin HexDigits \/ s[i + 2] \notin HexDigits
         THEN [out |-> <<>>, err |-> <<"invalid URL escape">>]
         ELSE LET r == unescapeFrom(s, i + 3, host)
              IN  [out |-> <<"\\xaa">> \o r.out, err |-> r.err]
    ELSE IF host /\ s[i] = " "
    THEN [out |-> <<>>, err |-> <<"invalid character in host name">>]
    ELSE LET r == unescapeFrom(s, i + 1, host)
         IN  [out |-> <<s[i]>> \o r.out, err |-> r.err]

unescape(s, host) ==
    LET r == unescapeFrom(s, 1, host)
    IN  IF r.err # NoErr THEN [out |-> <<>>, err |-> r.err] ELSE r

\* url.validOptionalPort: empty, or ":" followed by digits only.
validOptionalPort(port) ==
    \/ port = <<>>
    \/ /\ port[1] = ":"
       /\ \A i \in 2..Len(port) : port[i] \in Digits

\* url.parseHost (no "[" in the alphabet, so no IPv6 literal).
parseHost(host) ==
    LET i == LastIndex(host, ":")
    IN  IF i # 0 /\ ~validOptionalPort(Drop(host, i - 1))
        THEN [out |-> <<>>, err |-> <<"invalid port after host">>]
        ELSE unescape(host, TRUE)

\* url.parse(rawURL, viaRequest = false) as called by url.Parse; the alphabet
\* has no "#", "?", "@" or "*", so there is no fragment, query or userinfo.
urlParse(rawURL) ==
    LET bad(e) == [ok |-> FALSE, err |-> <<"parse">> \o rawURL \o e,
                   url |-> [Scheme |-> <<>>, Opaque |-> <<>>, Host |-> <<>>, Path |-> <<>>]]
        sch == getScheme(rawURL)
        scheme == ToLower(sch.scheme)
        rest == sch.path
        hasAuthority == (scheme # <<>> \/ ~HasPrefix(rest, <<"/", "/", "/">>))
                            /\ HasPrefix(rest, <<"/", "/">>)
        afterSlashes == Drop(rest, 2)
        cut == Index(afterSlashes, "/")
        authority == IF cut = 0 THEN afterSlashes ELSE Take(afterSlashes, cut - 1)
        pathRest == IF ~hasAuthority THEN rest
                    ELSE IF cut = 0 THEN <<>> ELSE Drop(afterSlashes, cut - 1)
        host == IF hasAuthority THEN parseHost(authority) ELSE [out |-> <<>>, err |-> NoErr]
        path == unescape(pathRest, FALSE)
        firstSlash == Index(rest, "/")
        segment == IF firstSlash = 0 THEN rest ELSE Take(rest, firstSlash - 1)
    IN  IF Contains(rawURL, CTL)
        THEN bad(<<"net/url: invalid control character in URL">>)
        ELSE IF sch.err # NoErr
        THEN bad(sch.err)
        ELSE IF ~HasPrefix(rest, <<"/">>) /\ scheme # <<>>
        THEN [ok |-> TRUE, err |-> NoErr,
              url |-> [Scheme |-> scheme, Opaque |-> rest, Host |-> <<>>, Path |-> <<>>]]
        ELSE IF ~HasPrefix(rest, <<"/">>) /\ Contains(segment, ":")
        THEN bad(<<"first path segment in URL cannot contain colon">>)
        ELSE IF host.err # NoErr
        THEN bad(host.err)
        ELSE IF path.err # NoErr
        THEN bad(path.err)
        ELSE [ok |-> TRUE, err |-> NoErr,
              url |-> [Scheme |-> scheme, Opaque |-> <<>>, Host |-> host.out,
                       Path |-> path.out]]

\* url.Parse: the parsed URL or an *url.Error{"parse", rawURL, err}.
Parse(rawURL) == urlParse(rawURL)

(* ------------------------- errors and diagnostics --------------------- *)

\* An error is its message, a sequence of text pieces, and the error it wraps.
NilErr == [nil |-> TRUE, msg |-> <<>>, cause |-> <<>>]
NewError(msg) == [nil |-> FALSE, msg |-> msg, cause |-> <<>>]

\* Errorf with the wrapped error left out of the text.
ErrorfNoCause(prefix, err) == [nil |-> FALSE, msg |-> <<prefix>>, cause |-> <<>>]

\* fmt.Errorf(prefix + ": %w", err): the prefix, then the text of err, which
\* stays reachable as the wrapped error.
Errorf(prefix, err) == [nil |-> FALSE, msg |-> <<prefix>> \o err.msg, cause |-> err.msg]

\* diag.FromErr: one diagnostic of severity Error whose summary is err.Error().
NoDiags == <<>>
FromErr(err) == <<[Severity |-> "Error", Summary |-> err.msg]>>

(* ----------------------------- schema --------------------------------- *)

NilValue == [kind |-> "nil"]
StringValue(str) == [kind |-> "string", str |-> str]
BoolValue(b) == [kind |-> "bool", b |-> b]

\* Provider().Schema: type and default of each provider option.  envVar is
\* the variable of schema.EnvDefaultFunc(envVar, dv); an option with a fixed
\* Default has envVar "".
Schema ==
    [web_service_url |->
        [Type |-> "TypeString", envVar |-> "WEB_SERVICE_URL", dv |-> NilValue],
     token |->
        [Type |-> "TypeString", envVar |-> "PULSAR_AUTH_TOKEN", dv |-> NilValue],
     api_version |->
        [Type |-> "TypeString", envVar |-> "", dv |-> StringValue(<<"1">>)],
     tls_trust_certs_file_path |->
        [Type |-> "TypeString", envVar |-> "TLS_TRUST_CERTS_FILE_PATH", dv |-> NilValue],
     tls_allow_insecure_connection |->
        [Type |-> "TypeBool", envVar |-> "TLS_ALLOW_INSECURE_CONNECTION",
         dv |-> BoolValue(FALSE)]]

EnvVars == {"WEB_SERVICE_URL", "PULSAR_AUTH_TOKEN", "TLS_TRUST_CERTS_FILE_PATH",
            "TLS_ALLOW_INSECURE_CONNECTION"}

\* strconv.ParseBool as the SDK applies it to a string default of a TypeBool
\* option; the empty string decodes to false.
ParseBool(str) == str \in {<<"1">>, <<"t">>, <<"T">>, <<"t", "r", "u", "e">>,
                           <<"T", "R", "U", "E">>, <<"T", "r", "u", "e">>}

\* A default that never looks at the environment.
EnvDefaultFuncNoEnv(environ, k, dv) == dv

\* schema.EnvDefaultFunc(k, dv): the variable's value when it is non-empty,
\* otherwise dv.
EnvDefaultFunc(environ, k, dv) ==
    IF environ[k] # <<>> THEN StringValue(environ[k]) ELSE dv

\* Schema.DefaultValue: the fixed Default or the result of DefaultFunc.
DefaultValue(environ, key) ==
    IF Schema[key].envVar = ""
    THEN Schema[key].dv
    ELSE EnvDefaultFunc(environ, Schema[key].envVar, Schema[key].dv)

\* d.Get(key): the configured value, else the schema default, converted to
\* the option's type; a nil value reads as the zero value of the type.
Get(config, environ, key) ==
    LET raw == IF key \in DOMAIN config THEN config[key] ELSE DefaultValue(environ, key)
    IN  IF Schema[key].Type = "TypeBool"
        THEN CASE raw.kind = "bool" -> raw.b
               [] raw.kind = "string" -> ParseBool(raw.str)
               [] OTHER -> FALSE
        ELSE CASE raw.kind = "string" -> raw.str
               [] OTHER -> <<>>

(* ----------------------------- pulsarctl ------------------------------ *)

\* Variants of the list of versions: another order, nothing to build once a
\* registry was returned, and the version chosen by api_version.
SupportedVersionsReordered == <<"V2", "V1", "V3">>

SupportedVersionsCached ==
    IF \E k \in 1..Len(sessions) : ~sessions[k].output.nil
    THEN <<>>
    ELSE <<"V1", "V2", "V3">>

SupportedVersionsByOption ==
    IF "api_version" \in DOMAIN d.config /\ d.config["api_version"].str = <<"2">>
    THEN <<"V2">>
    ELSE <<"V1", "V2", "V3">>

\* common.V1, common.V2, common.V3 in the order of the loop.
SupportedVersions == <<"V1", "V2", "V3">>

APIVersions == {"V1", "V2", "V3"}

\* Errors pulsar.New may answer with.
NewErrors == {<<"tls">>, <<"auth">>}

NoClient == [id |-> 0]

\* make(map[common.APIVersion]pulsar.Client, 3)
EmptyMeta == [v \in {} |-> NoClient]

Nil == [nil |-> TRUE, map |-> EmptyMeta]
Registry(m) == [nil |-> FALSE, map |-> m]

(* --------------------------- provider.go ------------------------------ *)

\* A validation that accepts every endpoint.
validatePulsarConfigUnchecked(dd) == NilErr

\* validatePulsarConfig: the endpoint must parse; the parsed URL is dropped.
validatePulsarConfig(dd) ==
    LET webServiceURL == Get(dd.config, dd.environ, "web_service_url")
        parsed == Parse(webServiceURL)
    IN  IF ~parsed.ok
        THEN Errorf("ERROR_PULSAR_CONFIG_INVALID_WEB_SERVICE_URL", NewError(parsed.err))
        ELSE NilErr

\* url.URL.String of a parsed endpoint, and an endpoint read that goes
\* through it.
String(u) ==
    IF u.Opaque # <<>>
    THEN u.Scheme \o <<":">> \o u.Opaque
    ELSE (IF u.Scheme # <<>> THEN u.Scheme \o <<":">> ELSE <<>>)
             \o (IF u.Host # <<>> THEN <<"/", "/">> \o u.Host ELSE <<>>)
             \o u.Path

ReadClusterURLNormalized(dd) ==
    String(Parse(Get(dd.config, dd.environ, "web_service_url")).url)

\* The four reads of providerConfigure.
ReadClusterURL(dd) == Get(dd.config, dd.environ, "web_service_url")
ReadToken(dd) == Get(dd.config, dd.environ, "token")
ReadTLSTrustCertsFilePath(dd) == Get(dd.config, dd.environ, "tls_trust_certs_file_path")
ReadTLSAllowInsecureConnection(dd) ==
    Get(dd.config, dd.environ, "tls_allow_insecure_connection")

\* A configuration that always asks for the first version.
ConfigFirstVersion(v) ==
    [WebServiceURL |-> clusterURL,
     Token |-> token,
     PulsarAPIVersion |-> "V1",
     TLSTrustCertsFilePath |-> TLSTrustCertsFilePath,
     TLSAllowInsecureConnection |-> TLSAllowInsecureConnection]

\* The common.Config built in each iteration of the loop.
Config(v) ==
    [WebServiceURL |-> clusterURL,
     Token |-> token,
     PulsarAPIVersion |-> v,
     TLSTrustCertsFilePath |-> TLSTrustCertsFilePath,
     TLSAllowInsecureConnection |-> TLSAllowInsecureConnection]

\* An assignment that drops the entries made before.
MetaSetReplace(m, v, client) == [k \in {v} |-> client]

\* meta[version] = client
MetaSet(m, v, client) ==
    [k \in DOMAIN m \cup {v} |-> IF k = v THEN client ELSE m[k]]

\* Returning the map as far as it was built.
OutputOnErrorPartial == Registry(meta)

\* The first value of "return nil, fmt.Errorf(...)" in providerConfigure, as
\* ConfigureContextFunc hands it on.
OutputOnError == Nil

\* The record of a returned call.
Session(out, dg, cs) ==
    [d |-> d, TerraformVersion |-> TerraformVersion, calls |-> cs,
     output |-> out, diags |-> dg]

(* ----------------------------- inputs --------------------------------- *)

Handlers == {"h1", "h2"}

ValidURL == <<"A", ":", "/", "/", "a">>
MalformedURL == <<":", "a">>

NoEnv == [k \in EnvVars |-> <<>>]
NoConfig == [k \in {} |-> NilValue]

Option(key, values) == {NoConfig} \cup {key :> val : val \in values}
Both(A, B) == {a @@ b : a \in A, b \in B}
Given(key, values) == {key :> val : val \in values}

Tok == <<"t", "o", "k">>
EnvTok == <<"e", "n", "v">>
CaPath == <<"/", "c", "a">>
EnvCaPath == <<"/", "e">>
TfVersions == {<<>>, <<"1", ".", "5">>}

\* Every endpoint of up to MaxLen characters, nothing else configured.
EndpointInputs ==
    {[config |-> "web_service_url" :> StringValue(u), environ |-> NoEnv, tf |-> <<>>] :
        u \in Strings(MaxLen)}

\* The optional connection options, set or left out, under every environment.
OptionInputs ==
    {[config |-> c, environ |-> e, tf |-> <<>>] :
        c \in Both(Given("web_service_url", {StringValue(ValidURL)}),
              Both(Option("token", {StringValue(Tok)}),
              Both(Option("tls_trust_certs_file_path", {StringValue(CaPath)}),
                   Option("tls_allow_insecure_connection",
                          {BoolValue(TRUE), BoolValue(FALSE)})))),
        e \in {[WEB_SERVICE_URL |-> <<>>,
                PULSAR_AUTH_TOKEN |-> t,
                TLS_TRUST_CERTS_FILE_PATH |-> p,
                TLS_ALLOW_INSECURE_CONNECTION |-> b] :
                   t \in {<<>>, EnvTok}, p \in {<<>>, EnvCaPath},
                   b \in {<<>>, <<"t", "r", "u", "e">>, <<"0">>}}}

\* api_version and the host's Terraform version.
IgnoredInputs ==
    {[config |-> c, environ |-> NoEnv, tf |-> t] :
        c \in Both(Given("web_service_url",
                         {StringValue(ValidURL), StringValue(MalformedURL)}),
                   Option("api_version", {StringValue(<<"1">>), StringValue(<<"2">>)})),
        t \in TfVersions}

\* The endpoint taken from WEB_SERVICE_URL.
EnvEndpointInputs ==
    {[config |-> NoConfig, environ |-> [NoEnv EXCEPT !["WEB_SERVICE_URL"] = u], tf |-> <<>>] :
        u \in {ValidURL, MalformedURL}}

Inputs == EndpointInputs \cup OptionInputs \cup IgnoredInputs \cup EnvEndpointInputs

\* The inputs of a run of several sessions: an endpoint alone, with a token,
\* with api_version under either Terraform version, and a malformed one.
SessionInputs ==
    {[config |-> "web_service_url" :> StringValue(ValidURL),
      environ |-> NoEnv, tf |-> <<>>],
     [config |-> "web_service_url" :> StringValue(ValidURL)
                     @@ "token" :> StringValue(Tok),
      environ |-> NoEnv, tf |-> <<>>],
     [config |-> "web_service_url" :> StringValue(ValidURL)
                     @@ "api_version" :> StringValue(<<"2">>),
      environ |-> NoEnv, tf |-> <<>>],
     [config |-> "web_service_url" :> StringValue(ValidURL)
                     @@ "api_version" :> StringValue(<<"2">>),
      environ |-> NoEnv, tf |-> <<"1", ".", "5">>],
     [config |-> "web_service_url" :> StringValue(MalformedURL),
      environ |-> NoEnv, tf |-> <<>>],
     [config |-> "web_service_url" :> StringValue(MalformedURL)
                     @@ "api_version" :> StringValue(<<"2">>),
      environ |-> NoEnv, tf |-> <<"1", ".", "5">>]}

(* ----------------------------- actions -------------------------------- *)

Init ==
    /\ d = [config |-> NoConfig, environ |-> NoEnv]
    /\ TerraformVersion = <<>>
    /\ pc = "idle"
    /\ tfVersion = <<>>
    /\ clusterURL = <<>>
    /\ token = <<>>
    /\ TLSTrustCertsFilePath = <<>>
    /\ TLSAllowInsecureConnection = FALSE
    /\ meta = EmptyMeta
    /\ version = 1
    /\ calls = <<>>
    /\ output = Nil
    /\ diags = NoDiags
    /\ sessions = <<>>
    /\ nextClient = 1
    /\ got = [h \in Handlers |-> NoClient]

\* The host calls ConfigureContextFunc (lines 77-83).
Invoke(in, limit) ==
    /\ pc \in {"idle", "returned"}
    /\ Len(sessions) < limit
    /\ d' = [config |-> in.config, environ |-> in.environ]
    /\ TerraformVersion' = in.tf
    /\ tfVersion' = IF in.tf = <<>> THEN <<"0.11+compatible">> ELSE in.tf
    /\ pc' = "validate"
    /\ clusterURL' = <<>>
    /\ token' = <<>>
    /\ TLSTrustCertsFilePath' = <<>>
    /\ TLSAllowInsecureConnection' = FALSE
    /\ meta' = EmptyMeta
    /\ version' = 1
    /\ calls' = <<>>
    /\ output' = Nil
    /\ diags' = NoDiags
    /\ got' = [h \in Handlers |-> NoClient]
    /\ UNCHANGED <<sessions, nextClient>>

\* validatePulsarConfig fails: return nil, diag.FromErr(err) (lines 85-87).
ValidateFail ==
    /\ pc = "validate"
    /\ ~validatePulsarConfig(d).nil
    /\ output' = Nil
    /\ diags' = FromErr(validatePulsarConfig(d))
    /\ pc' = "returned"
    /\ sessions' = Append(sessions, Session(output', diags', calls))
    /\ UNCHANGED <<d, TerraformVersion, tfVersion, clusterURL, token,
                   TLSTrustCertsFilePath, TLSAllowInsecureConnection, meta,
                   version, calls, nextClient, got>>

\* validatePulsarConfig succeeds; providerConfigure reads the options and
\* makes the map (lines 85, 89, 99-108).
ValidateOk ==
    /\ pc = "validate"
    /\ validatePulsarConfig(d).nil
    /\ clusterURL' = ReadClusterURL(d)
    /\ token' = ReadToken(d)
    /\ TLSTrustCertsFilePath' = ReadTLSTrustCertsFilePath(d)
    /\ TLSAllowInsecureConnection' = ReadTLSAllowInsecureConnection(d)
    /\ meta' = EmptyMeta
    /\ version' = 1
    /\ pc' = "loop"
    /\ UNCHANGED <<d, TerraformVersion, tfVersion, calls, output, diags,
                   sessions, nextClient, got>>

\* One iteration of the loop in which pulsar.New answers with a client
\* (lines 109-118, 122).
NewClientOk ==
    /\ pc = "loop"
    /\ version <= Len(SupportedVersions)
    /\ LET v == SupportedVersions[version]
           client == [id |-> nextClient, config |-> Config(v)]
       IN  /\ calls' = Append(calls, [config |-> Config(v), err |-> <<>>,
                                      client |-> nextClient])
           /\ meta' = MetaSet(meta, v, client)
    /\ nextClient' = nextClient + 1
    /\ version' = version + 1
    /\ UNCHANGED <<d, TerraformVersion, pc, tfVersion, clusterURL, token,
                   TLSTrustCertsFilePath, TLSAllowInsecureConnection, output,
                   diags, sessions, got>>

\* One iteration of the loop in which pulsar.New answers with an error:
\* providerConfigure and ConfigureContextFunc return (lines 109-121, 90-92).
NewClientFail(e) ==
    /\ pc = "loop"
    /\ version <= Len(SupportedVersions)
    /\ calls' = Append(calls, [config |-> Config(SupportedVersions[version]),
                               err |-> e, client |-> 0])
    /\ output' = OutputOnError
    /\ diags' = FromErr(Errorf("failed to create pulsar client", NewError(e)))
    /\ pc' = "returned"
    /\ sessions' = Append(sessions, Session(output', diags', calls'))
    /\ UNCHANGED <<d, TerraformVersion, tfVersion, clusterURL, token,
                   TLSTrustCertsFilePath, TLSAllowInsecureConnection, meta,
                   version, nextClient, got>>

\* The loop is over: return meta, nil (lines 124, 93).
ReturnMeta ==
    /\ pc = "loop"
    /\ version > Len(SupportedVersions)
    /\ output' = Registry(meta)
    /\ diags' = NoDiags
    /\ pc' = "returned"
    /\ sessions' = Append(sessions, Session(output', diags', calls))
    /\ UNCHANGED <<d, TerraformVersion, tfVersion, clusterURL, token,
                   TLSTrustCertsFilePath, TLSAllowInsecureConnection, meta,
                   version, calls, nextClient, got>>

\* A resource handler reads the client of one version from the registry it
\* was given; a missing key reads as the nil client.
Lookup(h, v) ==
    /\ pc = "returned"
    /\ ~output.nil
    /\ got' = [got EXCEPT ![h] = IF v \in DOMAIN output.map THEN output.map[v]
                                 ELSE NoClient]
    /\ UNCHANGED <<d, TerraformVersion, pc, tfVersion, clusterURL, token,
                   TLSTrustCertsFilePath, TLSAllowInsecureConnection, meta,
                   version, calls, output, diags, sessions, nextClient>>

Configure ==
    \/ ValidateFail
    \/ ValidateOk
    \/ NewClientOk
    \/ \E e \in NewErrors : NewClientFail(e)
    \/ ReturnMeta
    \/ \E h \in Handlers, v \in APIVersions : Lookup(h, v)

\* One session: the host configures the provider once.
Next ==
    \/ \E in \in Inputs : Invoke(in, 1)
    \/ Configure

Spec == Init /\ [][Next]_vars

\* Several sessions one after the other in the same process.
NextSessions ==
    \/ \E in \in SessionInputs : Invoke(in, MaxSessions)
    \/ Configure

SpecSessions == Init /\ [][NextSessions]_vars

(* ----------------------------- properties ----------------------------- *)

\* The endpoint as the host supplied it: the configured string, else the
\* value of WEB_SERVICE_URL.
EndpointOf(dd) ==
    IF "web_service_url" \in DOMAIN dd.config
    THEN dd.config["web_service_url"].str
    ELSE dd.environ["WEB_SERVICE_URL"]

Malformed(u) == ~Parse(u).ok

Running == pc \in {"validate", "loop", "returned"}

\* The call of pulsar.New that failed in a sequence of calls, 0 if none.
FailedAt(cs) == IF cs # <<>> /\ cs[Len(cs)].err # <<>> THEN Len(cs) ELSE 0

\* C1: a call whose endpoint does not parse as a URL never reaches the loop,
\* calls pulsar.New zero times and returns nil with one Error diagnostic
\* that starts with ERROR_PULSAR_CONFIG_INVALID_WEB_SERVICE_URL and carries
\* the parse error.
C1_MalformedEndpointRejected ==
    (Running /\ Malformed(EndpointOf(d))) =>
        /\ calls = <<>>
        /\ pc # "loop"
        /\ pc = "returned" =>
            /\ output = Nil
            /\ Len(diags) = 1
            /\ diags[1].Severity = "Error"
            /\ diags[1].Summary =
                <<"ERROR_PULSAR_CONFIG_INVALID_WEB_SERVICE_URL">>
                    \o Parse(EndpointOf(d)).err

C1_Witness ==
    /\ pc = "returned"
    /\ EndpointOf(d) = <<" ", ":", "/">>
    /\ diags # NoDiags

\* C2: a call that returns without a diagnostic returns a registry with
\* exactly the keys V1, V2 and V3; the client under v was made from a
\* configuration with PulsarAPIVersion v, and the three clients are distinct
\* and not nil.
C2_RegistryTotal ==
    (pc = "returned" /\ diags = NoDiags) =>
        /\ ~output.nil
        /\ DOMAIN output.map = {"V1", "V2", "V3"}
        /\ \A v \in DOMAIN output.map :
            /\ output.map[v].config.PulsarAPIVersion = v
            /\ output.map[v] # NoClient
        /\ \A v, w \in DOMAIN output.map :
            v # w => output.map[v].id # output.map[w].id

C2_Witness ==
    /\ pc = "returned"
    /\ diags = NoDiags
    /\ Len(calls) = 3
    /\ got["h1"] = output.map["V2"]
    /\ got["h1"] # NoClient

\* C3: when pulsar.New fails for some version, the call returns nil and a
\* diagnostic; the partly filled map is not returned and no handler ever
\* obtains a client from it.
C3_NoPartialRegistry ==
    (pc = "returned" /\ FailedAt(calls) # 0) =>
        /\ output = Nil
        /\ diags # NoDiags
        /\ \A h \in Handlers : got[h] = NoClient

C3_Witness ==
    /\ pc = "returned"
    /\ FailedAt(calls) = 3
    /\ DOMAIN meta = {"V1", "V2"}
    /\ output = Nil

\* C4: the calls of pulsar.New of one call are for V1, V2, V3 in this order,
\* one per version, and a call that failed is the last one.
C4_OrderedFailFast ==
    /\ Len(calls) <= 3
    /\ \A k \in 1..Len(calls) :
        /\ calls[k].config.PulsarAPIVersion = <<"V1", "V2", "V3">>[k]
        /\ k < Len(calls) => calls[k].err = <<>>
    /\ FailedAt(calls) # 0 => pc = "returned"

C4_Witness ==
    /\ pc = "returned"
    /\ FailedAt(calls) = 2
    /\ calls[1].err = <<>>

OmitsOptional(dd) ==
    {"token", "tls_trust_certs_file_path", "tls_allow_insecure_connection"}
        \cap DOMAIN dd.config = {}

C6_ErrorNamesVersion ==
    \A i, j \in 1..Len(sessions) :
        (/\ FailedAt(sessions[i].calls) # 0
         /\ FailedAt(sessions[j].calls) # 0
         /\ FailedAt(sessions[i].calls) # FailedAt(sessions[j].calls))
            => sessions[i].diags # sessions[j].diags

\* C6 amended: when pulsar.New fails, the call returns one Error diagnostic
\* whose text is "failed to create pulsar client" followed by the text of
\* the error pulsar.New answered with; the version is not part of it, so
\* the same error on different versions gives equal diagnostics.
C6_ErrorCarriesCause ==
    \A i \in 1..Len(sessions) :
        LET cs == sessions[i].calls
        IN  FailedAt(cs) # 0 =>
                /\ sessions[i].diags =
                    <<[Severity |-> "Error",
                       Summary |-> <<"failed to create pulsar client">>
                                       \o cs[Len(cs)].err]>>
                /\ \A j \in 1..Len(sessions) :
                    (/\ FailedAt(sessions[j].calls) # 0
                     /\ sessions[j].calls[Len(sessions[j].calls)].err = cs[Len(cs)].err)
                        => sessions[j].diags = sessions[i].diags

C6_Witness ==
    /\ Len(sessions) = 2
    /\ FailedAt(sessions[1].calls) = 1
    /\ FailedAt(sessions[2].calls) = 3
    /\ sessions[1].calls[1].err = <<"tls">>
    /\ sessions[2].calls[3].err = <<"tls">>

\* What a returned call shows apart from the identity of its clients.
View(s) ==
    [nil |-> s.output.nil,
     configs |-> [v \in DOMAIN s.output.map |-> s.output.map[v].config],
     diags |-> s.diags]

Min(a, b) == IF a < b THEN a ELSE b

\* Two returned calls go the same way as long as pulsar.New answers the same:
\* each next call of pulsar.New gets the same configuration, and with the
\* same answers throughout both make the same number of calls and return
\* the same.
SameCourse(s, t) ==
    LET m == Min(Len(s.calls), Len(t.calls))
        agree(n) == \A k \in 1..n : s.calls[k].err = t.calls[k].err
    IN  /\ \A k \in 1..m : agree(k - 1) => s.calls[k].config = t.calls[k].config
        /\ agree(m) => (Len(s.calls) = Len(t.calls) /\ View(s) = View(t))

ClientsOf(s) == {s.calls[k].client : k \in 1..Len(s.calls)} \ {0}

\* C7: whatever calls came before, two calls with the same input go the same
\* way given the same answers of pulsar.New; a call that returns a registry
\* made three calls of pulsar.New of its own, and no client belongs to two
\* calls.
C7_NoStateBetweenCalls ==
    \A i, j \in 1..Len(sessions) :
        i < j =>
            /\ (/\ sessions[i].d = sessions[j].d
                /\ sessions[i].TerraformVersion = sessions[j].TerraformVersion)
                    => SameCourse(sessions[i], sessions[j])
            /\ ClientsOf(sessions[i]) \cap ClientsOf(sessions[j]) = {}
            /\ ~sessions[j].output.nil =>
                /\ Cardinality(ClientsOf(sessions[j])) = 3
                /\ {sessions[j].output.map[v].id : v \in DOMAIN sessions[j].output.map}
                       = ClientsOf(sessions[j])

C7_Witness ==
    /\ Len(sessions) = 2
    /\ sessions[1].d = sessions[2].d
    /\ sessions[1].TerraformVersion = sessions[2].TerraformVersion
    /\ ~sessions[1].output.nil
    /\ ~sessions[2].output.nil
    /\ "token" \in DOMAIN sessions[1].d.config

\* C8 (step): a returned call's record and registry never change, the only
\* change of the map under construction is a new key, and the registry
\* returned is the map as built.
FrozenStep ==
    /\ \A k \in 1..Len(sessions) :
        Len(sessions') >= k /\ sessions'[k] = sessions[k]
    /\ (pc = "returned" /\ pc' = "returned") => output' = output
    /\ (pc = "loop" /\ pc' = "loop") =>
        \A v \in DOMAIN meta : v \in DOMAIN meta' /\ meta'[v] = meta[v]
    /\ (pc = "loop" /\ pc' = "returned" /\ ~output'.nil) => output'.map = meta

\* C8: the registry is append-only while it is built and frozen once
\* returned, under every interleaving of the handlers' lookups.
C8_RegistryFrozen == [][FrozenStep]_vars

C8_Witness ==
    /\ pc = "returned"
    /\ ~output.nil
    /\ got["h1"] = output.map["V1"]
    /\ got["h2"] = output.map["V3"]
    /\ got["h1"] # got["h2"]

Configured(dd, key) == key \in DOMAIN dd.config

\* C9: every configuration passed to pulsar.New in one call has the endpoint
\* exactly as supplied and the token, TLS path and insecure flag the host
\* configured; the configurations of one call differ in the version only.
C9_ConfigVerbatim ==
    \A k \in 1..Len(calls) :
        LET c == calls[k].config
        IN  /\ c.WebServiceURL = EndpointOf(d)
            /\ Configured(d, "token") => c.Token = d.config["token"].str
            /\ Configured(d, "tls_trust_certs_file_path") =>
                   c.TLSTrustCertsFilePath = d.config["tls_trust_certs_file_path"].str
            /\ Configured(d, "tls_allow_insecure_connection") =>
                   c.TLSAllowInsecureConnection =
                       d.config["tls_allow_insecure_connection"].b
            /\ \A j \in 1..Len(calls) :
                   [c EXCEPT !.PulsarAPIVersion = "V1"] =
                       [calls[j].config EXCEPT !.PulsarAPIVersion = "V1"]

C9_Witness ==
    /\ Len(calls) = 3
    /\ calls[3].config.WebServiceURL = ValidURL
    /\ Parse(ValidURL).url.Scheme # <<"A">>
    /\ calls[2].config.Token = Tok
    /\ calls[1].config.TLSAllowInsecureConnection

Without(c, key) == [k \in DOMAIN c \ {key} |-> c[k]]

\* C10: two calls whose inputs differ in api_version or in the Terraform
\* version only go the same way given the same answers of pulsar.New, and
\* the calls of pulsar.New are for V1, V2, V3 whatever these two are.
C10_IgnoredOptions ==
    \A i, j \in 1..Len(sessions) :
        /\ (/\ Without(sessions[i].d.config, "api_version")
                   = Without(sessions[j].d.config, "api_version")
            /\ sessions[i].d.environ = sessions[j].d.environ)
                => SameCourse(sessions[i], sessions[j])
        /\ \A k \in 1..Len(sessions[i].calls) :
               sessions[i].calls[k].config.PulsarAPIVersion = <<"V1", "V2", "V3">>[k]

C10_Witness ==
    /\ Len(sessions) = 2
    /\ ~Configured(sessions[1].d, "api_version")
    /\ Configured(sessions[2].d, "api_version")
    /\ Without(sessions[2].d.config, "api_version") = sessions[1].d.config
    /\ sessions[1].TerraformVersion # sessions[2].TerraformVersion
    /\ ~sessions[1].output.nil
    /\ ~sessions[2].output.nil

====
